---- MODULE Spec2Model ----
(***************************************************************************)
(* Model of localizable_json_parser (src/src/lib.rs): the conversion of an *)
(* Apple String Catalog into Android string-resource XML.                  *)
(*                                                                         *)
(* A Rust String is modelled as a sequence of one-character strings, so    *)
(* that trimming, the key regex, str::replace, sorting by byte order and   *)
(* format! concatenation are computed character by character.              *)
(* Option<T> is a sequence of length 0 (None) or 1 (Some).                 *)
(***************************************************************************)
EXTENDS Integers, Sequences, FiniteSets, TLC

VARIABLES
    catalog,    \* the deserialized input::Translation handed to from_string
    fs,         \* the directory write_in: fs.dirs, fs.files (sub_dir -> content)
    pc,         \* position in the pipeline
    parsed,     \* ParsedResult of parse::from_string
    grouped,    \* LocalizedPerLanguage.language_localized
    config,     \* AndroidLocalizeConfig of the localized_for_android call
    android,    \* LocalizedForAndroid under construction / returned
    todo,       \* languages the write loop has not visited yet (ascending)
    written,    \* the local written_xmls of the write loop
    io_error,   \* the ParsedError::Io that localized_for_android returned, if any
    fsBefore    \* the directory write_in as it was before the call

vars ==
    <<catalog, fs, pc, parsed, grouped, config, android, todo, written, io_error, fsBefore>>

----------------------------------------------------------------------------
(* Bounds *)

MaxKeys == 2        \* keys in the strings map of a catalog (Spec)
MaxKeyLen == 4      \* characters in a key (SpecKeys)
MaxValueLen == 4    \* characters in a translation value (SpecValues)

----------------------------------------------------------------------------
(* Characters and strings *)

\* The ASCII characters 32..95 and 97..126, in byte order (96 is left out).
PrintableLow ==
    <<" ", "!", "\"", "#", "$", "%", "&", "'", "(", ")", "*", "+", ",", "-", ".", "/",
      "0", "1", "2", "3", "4", "5", "6", "7", "8", "9", ":", ";", "<", "=", ">", "?",
      "@", "A", "B", "C", "D", "E", "F", "G", "H", "I", "J", "K", "L", "M", "N", "O",
      "P", "Q", "R", "S", "T", "U", "V", "W", "X", "Y", "Z", "[", "\\", "]", "^", "_">>

PrintableHigh ==
    <<"a", "b", "c", "d", "e", "f", "g", "h", "i", "j", "k", "l", "m", "n", "o",
      "p", "q", "r", "s", "t", "u", "v", "w", "x", "y", "z", "{", "|", "}", "~">>

Chars ==
    {PrintableLow[i] : i \in 1..Len(PrintableLow)}
        \cup {PrintableHigh[i] : i \in 1..Len(PrintableHigh)}
        \cup {"\t", "\n"}

\* The byte of an ASCII character (String comparison is byte-wise).
ByteOf ==
    [c \in Chars |->
        IF c = "\t" THEN 9
        ELSE IF c = "\n" THEN 10
        ELSE IF \E i \in 1..Len(PrintableLow) : PrintableLow[i] = c
             THEN 31 + (CHOOSE i \in 1..Len(PrintableLow) : PrintableLow[i] = c)
             ELSE 96 + (CHOOSE i \in 1..Len(PrintableHigh) : PrintableHigh[i] = c)]

IsUpper(c) == ByteOf[c] >= 65 /\ ByteOf[c] <= 90
IsLower(c) == ByteOf[c] >= 97 /\ ByteOf[c] <= 122
IsDigit(c) == ByteOf[c] >= 48 /\ ByteOf[c] <= 57

\* The character class [a-zA-Z0-9] of the key regex.
IsAlnum(c) == IsUpper(c) \/ IsLower(c) \/ IsDigit(c)

\* char::is_whitespace, restricted to the ASCII characters of the model.
IsWhitespace(c) == c \in {" ", "\t", "\n"}

\* char::to_lowercase on ASCII.
LowerChar(c) == IF IsUpper(c) THEN PrintableHigh[ByteOf[c] + 32 - 96] ELSE c

\* str::to_lowercase
ToLowercase(s) == [i \in 1..Len(s) |-> LowerChar(s[i])]

\* Ord for String: lexicographic on bytes, a proper prefix is smaller.
StrLess(a, b) ==
    \E i \in 1..(Len(b)) :
        /\ i <= Len(a) + 1
        /\ \A j \in 1..(i - 1) : a[j] = b[j]
        /\ (i = Len(a) + 1 \/ ByteOf[a[i]] < ByteOf[b[i]])

RECURSIVE TrimStart(_)
TrimStart(s) ==
    IF s # <<>> /\ IsWhitespace(Head(s)) THEN TrimStart(Tail(s)) ELSE s

RECURSIVE TrimEnd(_)
TrimEnd(s) ==
    IF s # <<>> /\ IsWhitespace(s[Len(s)]) THEN TrimEnd(SubSeq(s, 1, Len(s) - 1)) ELSE s

\* str::trim
Trim(s) == TrimEnd(TrimStart(s))

RECURSIVE TrimMatchesStart(_, _)
TrimMatchesStart(s, c) ==
    IF s # <<>> /\ Head(s) = c THEN TrimMatchesStart(Tail(s), c) ELSE s

RECURSIVE TrimMatchesEnd(_, _)
TrimMatchesEnd(s, c) ==
    IF s # <<>> /\ s[Len(s)] = c THEN TrimMatchesEnd(SubSeq(s, 1, Len(s) - 1), c) ELSE s

\* str::trim_matches(c)
TrimMatches(s, c) == TrimMatchesEnd(TrimMatchesStart(s, c), c)

\* Whether pat occurs in s at position i.
MatchesAt(s, pat, i) ==
    /\ i + Len(pat) - 1 <= Len(s)
    /\ \A j \in 1..Len(pat) : s[i + j - 1] = pat[j]

\* str::replace(pat, to): the non-overlapping matches, left to right.
RECURSIVE StrReplace(_, _, _)
StrReplace(s, pat, to) ==
    IF s = <<>> THEN <<>>
    ELSE IF MatchesAt(s, pat, 1)
         THEN to \o StrReplace(SubSeq(s, Len(pat) + 1, Len(s)), pat, to)
         ELSE <<Head(s)>> \o StrReplace(Tail(s), pat, to)

\* Vec<String>::join(sep)
RECURSIVE Join(_, _)
Join(parts, sep) ==
    IF parts = <<>> THEN <<>>
    ELSE IF Len(parts) = 1 THEN parts[1]
    ELSE parts[1] \o sep \o Join(Tail(parts), sep)

\* The ascending sequence of a finite set of strings (BTreeMap key order).
RECURSIVE SortedSeq(_)
SortedSeq(S) ==
    IF S = {} THEN <<>>
    ELSE LET m == CHOOSE x \in S : \A y \in S \ {x} : StrLess(x, y)
         IN  <<m>> \o SortedSeq(S \ {m})

----------------------------------------------------------------------------
(* String constants of the program *)

TRANSLATED_STATE == <<"t", "r", "a", "n", "s", "l", "a", "t", "e", "d">>
NEW_STATE == <<"n", "e", "w">>

OpenResources == <<"<", "r", "e", "s", "o", "u", "r", "c", "e", "s", ">", "\n">>
CloseResources == <<"\n", "<", "/", "r", "e", "s", "o", "u", "r", "c", "e", "s", ">">>
OpenString == <<"<", "s", "t", "r", "i", "n", "g", " ", "n", "a", "m", "e", "=", "\"">>
CloseString == <<"<", "/", "s", "t", "r", "i", "n", "g", ">">>
OpenPlurals == <<"<", "p", "l", "u", "r", "a", "l", "s", " ", "n", "a", "m", "e", "=", "\"">>
ClosePlurals == <<"<", "/", "p", "l", "u", "r", "a", "l", "s", ">">>
OpenItem == <<"<", "i", "t", "e", "m", " ", "q", "u", "a", "n", "t", "i", "t", "y", "=", "\"">>
CloseItem == <<"<", "/", "i", "t", "e", "m", ">">>
EndOfTag == <<"\"", ">">>
AppNameKey == <<"a", "p", "p", "_", "n", "a", "m", "e">>
ValuesDir == <<"v", "a", "l", "u", "e", "s">>
Newline == <<"\n">>

----------------------------------------------------------------------------
(* Deserialization (serde) of the JSON document into input::Translation.   *)
(* A JSON document is given by its abstract syntax: `strings` and          *)
(* `localizations` are functions from member name to member value (the     *)
(* HashMaps they become have no order), a `plural` object is the sequence  *)
(* of its <<name, value>> members in document order.                       *)

\* Option<StringUnitContainer> of one field of Plural.
PluralField(members, name) ==
    IF \E i \in 1..Len(members) : members[i][1] = name
    THEN LET i == CHOOSE j \in 1..Len(members) : members[j][1] = name
         IN  <<[string_unit |-> members[i][2].stringUnit]>>
    ELSE <<>>

\* struct Plural, in the order of its declaration.
DeserializePlural(members) ==
    [zero  |-> PluralField(members, "zero"),
     one   |-> PluralField(members, "one"),
     two   |-> PluralField(members, "two"),
     other |-> PluralField(members, "other"),
     many  |-> PluralField(members, "many"),
     few   |-> PluralField(members, "few")]

\* The untagged enum TranslationTypeContainer: StringUnit shape first, then Variation.
DeserializeContainer(unit) ==
    IF "stringUnit" \in DOMAIN unit
    THEN [kind |-> "StringUnit", string_unit |-> unit.stringUnit]
    ELSE [kind |-> "Variation",
          variations |-> [plural |-> DeserializePlural(unit.variations.plural)]]

\* struct Language: comment defaults to the empty string.
DeserializeLanguage(entry) ==
    [comment |-> IF entry.comment = <<>> THEN <<>> ELSE entry.comment[1],
     localizations |->
        [l \in DOMAIN entry.localizations |-> DeserializeContainer(entry.localizations[l])]]

\* struct input::Translation
DeserializeTranslation(json) ==
    [source_language |-> json.sourceLanguage,
     strings |-> [k \in DOMAIN json.strings |-> DeserializeLanguage(json.strings[k])],
     version |-> json.version]

----------------------------------------------------------------------------
(* parse::from_string *)

\* One extract!(field, variate) of the macro: push when the field is Some.
Extract(variations, field, variate) ==
    IF field # <<>>
    THEN Append(variations, [variate |-> variate, translation_value |-> field[1].string_unit])
    ELSE variations

\* Mutant: the slots are taken in the order of the fields of struct Plural.
ExtractAllInFieldOrder(plural) ==
    Extract(Extract(Extract(Extract(Extract(Extract(<<>>,
        plural.zero, "Zero"),
        plural.one, "One"),
        plural.two, "Two"),
        plural.other, "Other"),
        plural.many, "Many"),
        plural.few, "Few")

\* The six extract! calls, in the order they are written.
ExtractAll(plural) ==
    Extract(Extract(Extract(Extract(Extract(Extract(<<>>,
        plural.zero, "Zero"),
        plural.one, "One"),
        plural.two, "Two"),
        plural.few, "Few"),
        plural.many, "Many"),
        plural.other, "Other")

\* The match on the TranslationTypeContainer of one language.
ToOutputTranslation(container) ==
    IF container.kind = "StringUnit"
    THEN [kind |-> "Localization", value |-> container.string_unit]
    ELSE [kind |-> "PluralVariation", variations |-> ExtractAll(container.variations.plural)]

\* The fallback inserted when the source language is missing.
SourceFallback(key) ==
    [kind |-> "Localization", value |-> [value |-> key, state |-> TRANSLATED_STATE]]

\* Mutant: the fallback is inserted whether or not the source language is given.
LanguageTranslationOverwritten(source_language, key, language) ==
    [l \in DOMAIN language.localizations \cup {source_language} |->
        IF l = source_language
        THEN SourceFallback(key)
        ELSE ToOutputTranslation(language.localizations[l])]

\* localization_value.language_translation of one key (a BTreeMap).
LanguageTranslation(source_language, key, language) ==
    LET given == [l \in DOMAIN language.localizations |->
                      ToOutputTranslation(language.localizations[l])]
    IN  IF source_language \in DOMAIN given
        THEN given
        ELSE [l \in DOMAIN given \cup {source_language} |->
                 IF l = source_language THEN SourceFallback(key) ELSE given[l]]

RECURSIVE SkipNonAlnum(_)
SkipNonAlnum(s) ==
    IF s # <<>> /\ ~IsAlnum(Head(s)) THEN SkipNonAlnum(Tail(s)) ELSE s

\* Regex [^a-zA-Z0-9]+ replace_all(s, "_"): every leftmost-longest match.
RECURSIVE RegexReplaceAll(_)
RegexReplaceAll(s) ==
    IF s = <<>> THEN <<>>
    ELSE IF IsAlnum(Head(s))
         THEN <<Head(s)>> \o RegexReplaceAll(Tail(s))
         ELSE <<"_">> \o RegexReplaceAll(SkipNonAlnum(Tail(s)))

\* Mutant: the underscores at the ends are kept.
SanitizedAndroidKeyUntrimmed(key) == ToLowercase(RegexReplaceAll(Trim(key)))

\* sanitized_android_key
SanitizedAndroidKey(key) ==
    ToLowercase(TrimMatches(RegexReplaceAll(Trim(key)), "_"))

\* The SingleTranslation pushed for one key.
SingleTranslationOf(translation, key) ==
    [key_raw |-> key,
     key_alphanumeric |-> SanitizedAndroidKey(key),
     localization_value |->
        [language_translation |->
            LanguageTranslation(translation.source_language, key, translation.strings[key])],
     comment |-> translation.strings[key].comment]

\* Insert x into the sorted sequence s behind every element that is not greater.
RECURSIVE InsertByKeyRaw(_, _)
InsertByKeyRaw(s, x) ==
    IF s = <<>> THEN <<x>>
    ELSE IF StrLess(x.key_raw, Head(s).key_raw)
         THEN <<x>> \o s
         ELSE <<Head(s)>> \o InsertByKeyRaw(Tail(s), x)

\* Mutant: the entries are left in iteration order.
SortByKeyRawSkipped(s) == s

\* single_translation.sort_by(|a, b| a.key_raw.cmp(&b.key_raw)): a stable sort.
RECURSIVE SortByKeyRaw(_)
SortByKeyRaw(s) ==
    IF s = <<>> THEN <<>>
    ELSE InsertByKeyRaw(SortByKeyRaw(SubSeq(s, 1, Len(s) - 1)), s[Len(s)])

\* Mutant: only leading whitespace is rejected.
IsInvalidKeyLeadingOnly(key) == TrimStart(key) # key

\* The key check at the head of the loop body.
IsInvalidKey(key) == Trim(key) # key

\* The loop over translation.strings in iteration order `order`, then the sort.
RECURSIVE FromStringLoop(_, _, _)
FromStringLoop(translation, order, pushed) ==
    IF order = <<>>
    THEN [ok |-> TRUE,
          localizable |-> [source_language |-> translation.source_language,
                           single_translation |-> SortByKeyRaw(pushed)],
          translation |-> translation]
    ELSE IF IsInvalidKey(Head(order))
         THEN [ok |-> FALSE,
               error |-> [kind |-> "InvalidTranslationKey", key |-> Head(order)]]
         ELSE FromStringLoop(translation, Tail(order),
                             Append(pushed, SingleTranslationOf(translation, Head(order))))

\* parse::from_string on a schema-valid document whose strings map iterates in `order`.
FromString(json, order) ==
    FromStringLoop(DeserializeTranslation(json), order, <<>>)

\* The orders in which a HashMap with key set S may be iterated.
IterationOrders(S) ==
    {o \in [1..Cardinality(S) -> S] : \A i, j \in 1..Cardinality(S) : i # j => o[i] # o[j]}

----------------------------------------------------------------------------
(* Localizable::localized_per_language *)

RECURSIVE SkipWhitespace(_)
SkipWhitespace(s) ==
    IF s # <<>> /\ IsWhitespace(Head(s)) THEN SkipWhitespace(Tail(s)) ELSE s

RECURSIVE SkipWord(_)
SkipWord(s) ==
    IF s # <<>> /\ ~IsWhitespace(Head(s)) THEN SkipWord(Tail(s)) ELSE s

\* words_count::count(s).words: the whitespace-separated tokens of s.
RECURSIVE WordsCount(_)
WordsCount(s) ==
    LET t == SkipWhitespace(s)
    IN  IF t = <<>> THEN 0 ELSE 1 + WordsCount(SkipWord(t))

RECURSIVE SumWords(_)
SumWords(pv) ==
    IF pv = <<>> THEN 0
    ELSE WordsCount(Head(pv).translation_value.value) + SumWords(Tail(pv))

\* Mutant: of a plural, only the first variant is counted.
TranslationLengthFirstVariant(translation) ==
    IF translation.kind = "Localization"
    THEN WordsCount(translation.value.value)
    ELSE IF translation.variations = <<>> THEN 0
         ELSE WordsCount(Head(translation.variations).translation_value.value)

\* `length`: the words of one translation.
TranslationLength(translation) ==
    IF translation.kind = "Localization"
    THEN WordsCount(translation.value.value)
    ELSE SumWords(translation.variations)

\* LocalizedPerLanguageInfo::default()
DefaultInfo == [word_count |-> 0, translations |-> <<>>]

\* Mutant: the record is put in front of the bucket.
PushTranslationInFront(language_localized, single_translation, language) ==
    LET translation ==
            single_translation.localization_value.language_translation[language]
        info == IF language \in DOMAIN language_localized
                THEN language_localized[language]
                ELSE DefaultInfo
        updated ==
            [word_count |-> info.word_count + TranslationLength(translation),
             translations |->
                <<[key_raw |-> single_translation.key_raw,
                   key_alphanumeric |-> single_translation.key_alphanumeric,
                   translation |-> translation,
                   comment |-> single_translation.comment]>> \o info.translations]
    IN  [l \in DOMAIN language_localized \cup {language} |->
            IF l = language THEN updated ELSE language_localized[l]]

\* The body of the inner loop: entry(language).or_default(), push, add the words.
PushTranslation(language_localized, single_translation, language) ==
    LET translation ==
            single_translation.localization_value.language_translation[language]
        info == IF language \in DOMAIN language_localized
                THEN language_localized[language]
                ELSE DefaultInfo
        updated ==
            [word_count |-> info.word_count + TranslationLength(translation),
             translations |->
                Append(info.translations,
                       [key_raw |-> single_translation.key_raw,
                        key_alphanumeric |-> single_translation.key_alphanumeric,
                        translation |-> translation,
                        comment |-> single_translation.comment])]
    IN  [l \in DOMAIN language_localized \cup {language} |->
            IF l = language THEN updated ELSE language_localized[l]]

\* The inner loop over the languages of one entry, in BTreeMap order.
RECURSIVE PushLanguages(_, _, _)
PushLanguages(language_localized, single_translation, languages) ==
    IF languages = <<>> THEN language_localized
    ELSE PushLanguages(
            PushTranslation(language_localized, single_translation, Head(languages)),
            single_translation, Tail(languages))

\* The outer loop over self.single_translation.
RECURSIVE GroupEntries(_, _)
GroupEntries(language_localized, entries) ==
    IF entries = <<>> THEN language_localized
    ELSE GroupEntries(
            PushLanguages(language_localized, Head(entries),
                SortedSeq(DOMAIN Head(entries).localization_value.language_translation)),
            Tail(entries))

\* The empty BTreeMap.
EmptyMap == [l \in {} |-> DefaultInfo]

LocalizedPerLanguageOf(localizable) ==
    [source_language |-> localizable.source_language,
     language_localized |-> GroupEntries(EmptyMap, localizable.single_translation)]

----------------------------------------------------------------------------
(* LocalizedPerLanguage::localized_for_android: rendering *)

\* PluralVariate::android_key
AndroidKey(variate) ==
    CASE variate = "Zero"  -> <<"Z", "e", "r", "o">>
      [] variate = "One"   -> <<"o", "n", "e">>
      [] variate = "Two"   -> <<"t", "w", "o">>
      [] variate = "Few"   -> <<"f", "e", "w">>
      [] variate = "Many"  -> <<"m", "a", "n", "y">>
      [] variate = "Other" -> <<"o", "t", "h", "e", "r">>

\* Mutant: only the apostrophes are escaped.
SanitizeForAndroidQuotesOnly(translation_value) ==
    StrReplace(translation_value.value, <<"'">>, <<"\\", "'">>)

\* TranslationValue::sanitize_for_android
SanitizeForAndroid(translation_value) ==
    StrReplace(StrReplace(translation_value.value, <<"'">>, <<"\\", "'">>),
               <<"$", "l", "l", "d">>, <<"$", "d">>)

\* format!("<item quantity=\"{}\">{}</item>", ..)
ItemLine(single_plural) ==
    OpenItem \o AndroidKey(single_plural.variate) \o EndOfTag
        \o SanitizeForAndroid(single_plural.translation_value) \o CloseItem

\* `content` of one SingleLocalizedPerLanguage.
ContentOf(t) ==
    IF t.translation.kind = "Localization"
    THEN OpenString \o t.key_alphanumeric \o EndOfTag
            \o SanitizeForAndroid(t.translation.value) \o CloseString
    ELSE LET plural == t.translation.variations
             temp == <<OpenPlurals \o t.key_alphanumeric \o EndOfTag>>
                        \o [i \in 1..Len(plural) |-> ItemLine(plural[i])]
                        \o <<ClosePlurals>>
         IN  Join(temp, Newline)

\* Mutant: the app name is pushed behind the entries.
WithAppNameLast(xml, app_name) ==
    IF app_name # <<>>
    THEN xml \o <<OpenString \o AppNameKey \o EndOfTag \o app_name \o CloseString>>
    ELSE xml

\* xml.insert(0, ..) when the app name is not empty.
WithAppName(xml, app_name) ==
    IF app_name # <<>>
    THEN <<OpenString \o AppNameKey \o EndOfTag \o app_name \o CloseString>> \o xml
    ELSE xml

\* The document of one language.
XmlOf(info, app_name) ==
    LET xml == [i \in 1..Len(info.translations) |-> ContentOf(info.translations[i])]
    IN  OpenResources \o Join(WithAppName(xml, app_name), Newline) \o CloseResources

\* sorted_languages after the first loop.
SortedLanguages(language_localized, app_name) ==
    [l \in DOMAIN language_localized |-> XmlOf(language_localized[l], app_name)]

----------------------------------------------------------------------------
(* LocalizedPerLanguage::localized_for_android: the write loop *)

\* sub_dir_name
SubDirName(language, source_language) ==
    ValuesDir \o (IF language = source_language THEN <<>> ELSE <<"-">> \o language)

\* Mutant: only_write_language_code is ignored.
IsFilteredOutNever(write_config, language) == FALSE

\* The `continue` of the loop.
IsFilteredOut(write_config, language) ==
    /\ write_config.only_write_language_code # <<>>
    /\ write_config.only_write_language_code[1] # language

\* The directory after the `if !sub_dir.exists()` step succeeded.
WithDir(dirs, sub_dir) == dirs \cup {sub_dir}

\* The files after std::fs::write(path_to_file, content) succeeded.
WithFile(files, sub_dir, content) ==
    [d \in DOMAIN files \cup {sub_dir} |-> IF d = sub_dir THEN content ELSE files[d]]

----------------------------------------------------------------------------
(* Inputs *)

En == <<"e", "n">>
Nl == <<"n", "l">>
De == <<"d", "e">>

StringUnit(value, state) == [stringUnit |-> [value |-> value, state |-> state]]
Variations(members) == [variations |-> [plural |-> members]]

KeyHello == <<"h", "e", "l", "l", "o">>
KeyHello2 == <<"h", "e", "l", "l", "o", "2">>
KeyHelloWorld == <<"H", "e", "l", "l", "o", " ", "W", "o", "r", "l", "d">>
KeyItems == <<"%", "d", " ", "i", "t", "e", "m", "s">>
KeyLeadingSpace == <<" ", "h", "e", "l", "l", "o">>

KeyPool == {KeyHello, KeyHello2, KeyHelloWorld, KeyItems, KeyLeadingSpace}

ValueHello == <<"H", "e", "l", "l", "o">>
ValueItems == <<"I", "t", "'", "s", " ", "%", "1", "$", "l", "l", "d", " ", "i", "t", "e", "m", "s">>
ValueTwoWords == <<"a", " ", " ", "b">>

\* No localizations at all.
EntryEmpty == [comment |-> <<>>, localizations |-> [l \in {} |-> StringUnit(<<>>, NEW_STATE)]]

\* An English string unit only.
EntryEnglish ==
    [comment |-> <<>>,
     localizations |-> [l \in {En} |-> StringUnit(ValueHello, TRANSLATED_STATE)]]

\* A Dutch string unit only, with a comment.
EntryDutch ==
    [comment |-> <<<<"c">>>>,
     localizations |-> [l \in {Nl} |-> StringUnit(ValueItems, NEW_STATE)]]

\* Plural variations in two languages, the members in different document orders.
EntryPlural ==
    [comment |-> <<>>,
     localizations |->
        [l \in {En, Nl} |->
            IF l = En
            THEN Variations(<<
                    <<"other", StringUnit(<<"O", "'">>, TRANSLATED_STATE)>>,
                    <<"many", StringUnit(<<"M">>, TRANSLATED_STATE)>> >>)
            ELSE Variations(<<
                    <<"other", StringUnit(<<"5">>, NEW_STATE)>>,
                    <<"zero", StringUnit(<<"0">>, NEW_STATE)>>,
                    <<"many", StringUnit(<<"4">>, NEW_STATE)>>,
                    <<"one", StringUnit(<<"1">>, NEW_STATE)>>,
                    <<"few", StringUnit(<<"3">>, NEW_STATE)>>,
                    <<"two", StringUnit(<<"2">>, NEW_STATE)>> >>)]]

\* A string unit and a plural object without members, in three languages.
EntryMixed ==
    [comment |-> <<<<"m">>>>,
     localizations |->
        [l \in {De, En, Nl} |->
            IF l = De THEN Variations(<<>>)
            ELSE IF l = En THEN StringUnit(ValueTwoWords, TRANSLATED_STATE)
            ELSE Variations(<<
                    <<"one", StringUnit(<<"x", " ", "y">>, TRANSLATED_STATE)>>,
                    <<"zero", StringUnit(<<"z">>, TRANSLATED_STATE)>> >>)]]

EntryPool == {EntryEmpty, EntryEnglish, EntryDutch, EntryPlural, EntryMixed}

Version == <<"1", ".", "0">>

\* The documents with at most n keys from keys, entries from entries.
CatalogsOf(keys, entries, sources, n) ==
    {[sourceLanguage |-> src, version |-> Version, strings |-> m] :
        src \in sources,
        m \in UNION {[K -> entries] : K \in {K \in SUBSET keys : Cardinality(K) <= n}}}

Catalogs == CatalogsOf(KeyPool, EntryPool, {En, Nl}, MaxKeys)

AppName == <<"A", "p", "p">>

\* AndroidLocalizeConfig values: write_config is an Option.
Configs ==
    {[app_name |-> a, write_config |-> w] :
        a \in {<<>>, AppName},
        w \in {<<>>}
              \cup {<<[only_write_language_code |-> o]>> : o \in {<<>>, <<Nl>>}}}

OldContent == <<"o", "l", "d">>

EmptyDir == [dirs |-> {}, files |-> [d \in {} |-> <<>>]]

\* values/strings.xml of an earlier export, and values-nl without a file.
UsedDir ==
    [dirs |-> {ValuesDir, ValuesDir \o <<"-">> \o Nl},
     files |-> [d \in {ValuesDir} |-> OldContent]]

NotCalled == [called |-> FALSE]

InitRest ==
    /\ pc = "start"
    /\ parsed = NotCalled
    /\ grouped = NotCalled
    /\ config = NotCalled
    /\ android = NotCalled
    /\ todo = <<>>
    /\ written = <<>>
    /\ io_error = NotCalled
    /\ fsBefore = fs

Init ==
    /\ catalog \in Catalogs
    /\ fs \in {EmptyDir, UsedDir}
    /\ InitRest

----------------------------------------------------------------------------
(* Operations *)

\* parse_from_string
ParseFromString ==
    /\ pc = "start"
    /\ \E order \in IterationOrders(DOMAIN catalog.strings) :
          parsed' = FromString(catalog, order)
    /\ pc' = IF parsed'.ok THEN "parsed" ELSE "parse_err"
    /\ UNCHANGED <<catalog, fs, grouped, config, android, todo, written, io_error, fsBefore>>

\* Localizable::localized_per_language on the parsed localizable
LocalizedPerLanguage ==
    /\ pc = "parsed"
    /\ grouped' = LocalizedPerLanguageOf(parsed.localizable)
    /\ pc' = "grouped"
    /\ UNCHANGED <<catalog, fs, parsed, config, android, todo, written, io_error, fsBefore>>

\* localized_for_android(config) up to the write loop; returns when write_config is None.
LocalizedForAndroid ==
    /\ pc = "grouped"
    /\ \E cfg \in Configs :
        /\ config' = cfg
        /\ android' = [sorted_languages |->
                            SortedLanguages(grouped.language_localized, cfg.app_name),
                       written_xmls |-> <<>>]
        /\ IF cfg.write_config = <<>>
           THEN pc' = "done" /\ todo' = <<>>
           ELSE pc' = "writing" /\ todo' = SortedSeq(DOMAIN android'.sorted_languages)
    /\ written' = <<>>
    /\ UNCHANGED <<catalog, fs, parsed, grouped, io_error, fsBefore>>

\* An iteration of the write loop that ends in `continue`.
WriteSkip ==
    /\ pc = "writing"
    /\ todo # <<>>
    /\ IsFilteredOut(config.write_config[1], Head(todo))
    /\ todo' = Tail(todo)
    /\ UNCHANGED <<catalog, fs, pc, parsed, grouped, config, android, written, io_error, fsBefore>>

\* An iteration of the write loop in which create_dir (when needed) and write succeed.
WriteXml ==
    /\ pc = "writing"
    /\ todo # <<>>
    /\ ~IsFilteredOut(config.write_config[1], Head(todo))
    /\ LET language == Head(todo)
           sub_dir_name == SubDirName(language, grouped.source_language)
       IN  /\ fs' = [dirs |-> WithDir(fs.dirs, sub_dir_name),
                     files |-> WithFile(fs.files, sub_dir_name,
                                        android.sorted_languages[language])]
           /\ written' = Append(written,
                                [language_code |-> language, sub_dir |-> sub_dir_name])
    /\ todo' = Tail(todo)
    /\ UNCHANGED <<catalog, pc, parsed, grouped, config, android, io_error, fsBefore>>

\* Mutant: create_dir is called, and may fail, although the directory exists.
CreateDirFailsWhenPresent ==
    /\ pc = "writing"
    /\ todo # <<>>
    /\ ~IsFilteredOut(config.write_config[1], Head(todo))
    /\ pc' = "io_err"
    /\ io_error' = [kind |-> "Io", op |-> "create_dir"]
    /\ UNCHANGED <<catalog, fs, parsed, grouped, config, android, todo, written, fsBefore>>

\* An iteration in which std::fs::create_dir fails: `?` returns the Io error
\* (todo keeps the language of the failed iteration at its head).
CreateDirFails ==
    /\ pc = "writing"
    /\ todo # <<>>
    /\ ~IsFilteredOut(config.write_config[1], Head(todo))
    /\ SubDirName(Head(todo), grouped.source_language) \notin fs.dirs
    /\ pc' = "io_err"
    /\ io_error' = [kind |-> "Io", op |-> "create_dir"]
    /\ UNCHANGED <<catalog, fs, parsed, grouped, config, android, todo, written, fsBefore>>

\* An iteration in which std::fs::write fails: the file is untouched (it could not
\* be opened) or holds a prefix of the content; `?` returns the Io error.
WriteFails ==
    /\ pc = "writing"
    /\ todo # <<>>
    /\ ~IsFilteredOut(config.write_config[1], Head(todo))
    /\ LET language == Head(todo)
           sub_dir_name == SubDirName(language, grouped.source_language)
           content == android.sorted_languages[language]
       IN  \/ fs' = [fs EXCEPT !.dirs = WithDir(fs.dirs, sub_dir_name)]
           \/ \E n \in {0, Len(content) \div 2} :
                 fs' = [dirs |-> WithDir(fs.dirs, sub_dir_name),
                        files |-> WithFile(fs.files, sub_dir_name, SubSeq(content, 1, n))]
    /\ pc' = "io_err"
    /\ io_error' = [kind |-> "Io", op |-> "write"]
    /\ UNCHANGED <<catalog, parsed, grouped, config, android, todo, written, fsBefore>>

\* The end of the write loop: written_xmls is stored and Ok is returned.
WriteLoopEnd ==
    /\ pc = "writing"
    /\ todo = <<>>
    /\ android' = [android EXCEPT !.written_xmls = written]
    /\ pc' = "done"
    /\ UNCHANGED <<catalog, fs, parsed, grouped, config, todo, written, io_error, fsBefore>>

Next ==
    \/ ParseFromString
    \/ LocalizedPerLanguage
    \/ LocalizedForAndroid
    \/ WriteSkip
    \/ WriteXml
    \/ CreateDirFails
    \/ WriteFails
    \/ WriteLoopEnd

Spec == Init /\ [][Next]_vars

\* All strings of at most n characters from alphabet.
StringsUpTo(alphabet, n) == UNION {[1..k -> alphabet] : k \in 0..n}

KeyAlphabet == {"a", "B", "1", " ", "_"}

\* One arbitrary key, alone or beside a key with a leading space.
KeyCatalogs ==
    {[sourceLanguage |-> En, version |-> Version, strings |-> [k \in K |-> EntryDutch]] :
        K \in {{k} : k \in StringsUpTo(KeyAlphabet, MaxKeyLen)}
              \cup {{k, KeyLeadingSpace} : k \in StringsUpTo(KeyAlphabet, MaxKeyLen)}}

InitKeys ==
    /\ catalog \in KeyCatalogs
    /\ fs = EmptyDir
    /\ InitRest

\* The pipeline on catalogs whose key ranges over all short strings.
SpecKeys == InitKeys /\ [][Next]_vars

ValueAlphabet == {"'", "$", "l", "d"}

\* One key whose English translation ranges over all short values (and the value
\* of the documented example), as a string unit or as the `other` plural slot.
ValueCatalogs ==
    {[sourceLanguage |-> En, version |-> Version,
      strings |-> [k \in {KeyHello} |->
                      [comment |-> <<>>, localizations |-> [l \in {En} |-> u]]]] :
        u \in UNION {{StringUnit(v, TRANSLATED_STATE),
                      Variations(<< <<"other", StringUnit(v, TRANSLATED_STATE)>> >>)} :
                     v \in StringsUpTo(ValueAlphabet, MaxValueLen) \cup {ValueItems}}}

InitValues ==
    /\ catalog \in ValueCatalogs
    /\ fs = EmptyDir
    /\ InitRest

\* The pipeline on catalogs whose translation value ranges over all short strings.
SpecValues == InitValues /\ [][Next]_vars

----------------------------------------------------------------------------
(* Properties *)

UpperLetters == {PrintableLow[i] : i \in 34..59}
LowerLetters == {PrintableHigh[i] : i \in 1..26}
Digits == {PrintableLow[i] : i \in 17..26}
Alphanumerics == UpperLetters \cup LowerLetters \cup Digits

\* The parse returned Ok.
ParsedOk == pc \notin {"start", "parse_err"}

Entries == parsed.localizable.single_translation

HasOuterWhitespace(k) ==
    k # <<>> /\ (k[1] \in {" ", "\t", "\n"} \/ k[Len(k)] \in {" ", "\t", "\n"})

WhitespaceKeys == {k \in DOMAIN catalog.strings : HasOuterWhitespace(k)}

\* C1: after a successful parse the Localizable holds exactly one entry per key of
\* the strings map, in strictly ascending key_raw order, whatever the order in
\* which the map was iterated.
C1_EntriesSortedOnePerKey ==
    ParsedOk =>
        /\ Len(Entries) = Cardinality(DOMAIN catalog.strings)
        /\ {Entries[i].key_raw : i \in 1..Len(Entries)} = DOMAIN catalog.strings
        /\ \A i, j \in 1..Len(Entries) :
              i < j => StrLess(Entries[i].key_raw, Entries[j].key_raw)

C1_Witness ==
    /\ pc = "parsed"
    /\ Len(Entries) >= 2
    /\ Entries[1].key_raw = KeyHelloWorld

\* C2 as stated: every key k with leading or trailing whitespace makes the parse
\* fail with InvalidTranslationKey(k); without such a key it never fails.
C2_AsStated ==
    pc # "start" =>
        /\ \A k \in WhitespaceKeys :
              /\ ~parsed.ok
              /\ parsed.error = [kind |-> "InvalidTranslationKey", key |-> k]
        /\ WhitespaceKeys = {} => parsed.ok

\* C2 amended: a catalog with a key that has leading or trailing whitespace makes
\* the parse fail with InvalidTranslationKey(k'), k' one of those keys of the
\* catalog, unchanged (the only one when there is one), and no Localizable is
\* returned; without such a key the parse never fails with InvalidTranslationKey.
C2_InvalidKeyRejected ==
    pc # "start" =>
        /\ WhitespaceKeys # {} =>
              /\ ~parsed.ok
              /\ "localizable" \notin DOMAIN parsed
              /\ parsed.error.kind = "InvalidTranslationKey"
              /\ parsed.error.key \in WhitespaceKeys
        /\ WhitespaceKeys = {} => parsed.ok

C2_Witness ==
    /\ pc = "parse_err"
    /\ Cardinality(WhitespaceKeys) = 1
    /\ parsed.error.key = <<"a", " ", "B", " ">>

\* The PluralVariate of a member name of a JSON plural object.
VariateOfMember(name) ==
    CASE name = "zero"  -> "Zero"
      [] name = "one"   -> "One"
      [] name = "two"   -> "Two"
      [] name = "few"   -> "Few"
      [] name = "many"  -> "Many"
      [] name = "other" -> "Other"

\* A normalized translation says what the JSON unit says.
Renders(translation, unit) ==
    IF "stringUnit" \in DOMAIN unit
    THEN translation = [kind |-> "Localization", value |-> unit.stringUnit]
    ELSE /\ translation.kind = "PluralVariation"
         /\ {<<v.variate, v.translation_value>> :
                v \in {translation.variations[i] : i \in 1..Len(translation.variations)}}
            = {<<VariateOfMember(m[1]), m[2].stringUnit>> :
                m \in {unit.variations.plural[i] :
                          i \in 1..Len(unit.variations.plural)}}

\* C3: after a successful parse every entry's per-language map contains the
\* source language: the fallback Localization{key_raw, "translated"} when the
\* input omits it, the provided string unit or plural variation otherwise.
C3_SourceLanguagePresent ==
    ParsedOk =>
        \A i \in 1..Len(Entries) :
            LET e == Entries[i]
                lt == e.localization_value.language_translation
                given == catalog.strings[e.key_raw].localizations
                src == catalog.sourceLanguage
            IN  /\ src \in DOMAIN lt
                /\ src \notin DOMAIN given =>
                      lt[src] = [kind |-> "Localization",
                                 value |-> [value |-> e.key_raw,
                                            state |-> <<"t", "r", "a", "n", "s", "l",
                                                        "a", "t", "e", "d">>]]
                /\ src \in DOMAIN given => Renders(lt[src], given[src])

C3_Witness ==
    /\ pc = "parsed"
    /\ \E i, j \in 1..Len(Entries) :
          /\ catalog.sourceLanguage
                \notin DOMAIN catalog.strings[Entries[i].key_raw].localizations
          /\ catalog.sourceLanguage
                \in DOMAIN catalog.strings[Entries[j].key_raw].localizations
          /\ Entries[j].localization_value.language_translation[catalog.sourceLanguage].kind
                = "PluralVariation"

\* The i-th smallest element of a set of numbers.
Nth(P, i) == CHOOSE x \in P : Cardinality({y \in P : y < x}) = i - 1

LowerOf(c) ==
    IF c \in UpperLetters
    THEN PrintableHigh[(CHOOSE i \in 34..59 : PrintableLow[i] = c) - 33]
    ELSE c

\* What C4 says key_alphanumeric is: the alphanumeric characters of the key,
\* lower-cased, with one "_" wherever other characters stood between two of them.
IsAlphanumericForm(r, k) ==
    LET P == {i \in 1..Len(k) : k[i] \in Alphanumerics}
        n == Cardinality(P)
        gap(j) == IF Nth(P, j + 1) > Nth(P, j) + 1 THEN 1 ELSE 0
        at(i) == i + Cardinality({j \in 1..(i - 1) : gap(j) = 1})
    IN  /\ Len(r) = IF n = 0 THEN 0 ELSE at(n)
        /\ \A i \in 1..n : r[at(i)] = LowerOf(k[Nth(P, i)])
        /\ \A x \in 1..Len(r) : x \notin {at(i) : i \in 1..n} => r[x] = "_"

\* C4: key_alphanumeric has only characters of [a-z0-9_], neither begins nor ends
\* with "_", and is key_raw with every maximal run of characters outside
\* [A-Za-z0-9] replaced by one "_", the "_" at the ends removed, lower-cased.
C4_KeyAlphanumeric ==
    pc = "parsed" =>
        \A i \in 1..Len(Entries) :
            LET r == Entries[i].key_alphanumeric
            IN  /\ \A x \in 1..Len(r) : r[x] \in LowerLetters \cup Digits \cup {"_"}
                /\ r # <<>> => r[1] # "_" /\ r[Len(r)] # "_"
                /\ IsAlphanumericForm(r, Entries[i].key_raw)

C4_Witness ==
    /\ pc = "parsed"
    /\ Entries[1].key_raw = <<"_", "B", " ", "a">>
    /\ Entries[1].key_alphanumeric = <<"b", "_", "a">>

\* localized_for_android has returned Ok with the documents.
Rendered == pc = "done"

Buckets == grouped.language_localized

StartsWith(s, prefix) ==
    Len(s) >= Len(prefix) /\ SubSeq(s, 1, Len(prefix)) = prefix

EndsWith(s, suffix) ==
    Len(s) >= Len(suffix) /\ SubSeq(s, Len(s) - Len(suffix) + 1, Len(s)) = suffix

\* The lines of a text.
RECURSIVE SplitLines(_)
SplitLines(s) ==
    IF \A i \in 1..Len(s) : s[i] # "\n" THEN <<s>>
    ELSE LET i == CHOOSE j \in 1..Len(s) : s[j] = "\n" /\ \A h \in 1..(j - 1) : s[h] # "\n"
         IN  <<SubSeq(s, 1, i - 1)>> \o SplitLines(SubSeq(s, i + 1, Len(s)))

\* The text of an element written on one line: what stands between the end of
\* the opening tag and the closing tag.
ElementText(line, closing) ==
    LET i == CHOOSE j \in 1..Len(line) :
                /\ line[j] = "\"" /\ line[j + 1] = ">"
                /\ \A h \in 1..(j - 1) : ~(line[h] = "\"" /\ line[h + 1] = ">")
    IN  SubSeq(line, i + 2, Len(line) - Len(closing))

\* The value of the attribute of the opening tag of a line.
AttributeValue(line, opening) ==
    LET i == CHOOSE j \in 1..Len(line) :
                /\ line[j] = "\"" /\ line[j + 1] = ">"
                /\ \A h \in 1..(j - 1) : ~(line[h] = "\"" /\ line[h + 1] = ">")
    IN  SubSeq(line, Len(opening) + 1, i - 1)

\* The <item> lines of the <plurals> block of a key in a document.
PluralItems(lines, key) ==
    LET p == CHOOSE i \in 1..Len(lines) : lines[i] = OpenPlurals \o key \o EndOfTag
        q == CHOOSE j \in (p + 1)..Len(lines) :
                /\ lines[j] = ClosePlurals
                /\ \A h \in (p + 1)..(j - 1) : lines[h] # ClosePlurals
    IN  SubSeq(lines, p + 1, q - 1)

\* The place of a plural category in the fixed order.
CategoryRank(variate) ==
    CASE variate = "Zero"  -> 1
      [] variate = "One"   -> 2
      [] variate = "Two"   -> 3
      [] variate = "Few"   -> 4
      [] variate = "Many"  -> 5
      [] variate = "Other" -> 6

\* C5: a plural Variation is normalized and rendered with exactly one item per
\* populated slot, in the order zero, one, two, few, many, other, whatever the
\* order of the members in the input; many and other alone give two items,
\* many first.
C5_PluralOrder ==
    Rendered =>
        \A k \in DOMAIN catalog.strings :
            \A l \in DOMAIN catalog.strings[k].localizations :
                LET unit == catalog.strings[k].localizations[l]
                    e == CHOOSE x \in {Entries[i] : i \in 1..Len(Entries)} : x.key_raw = k
                    t == e.localization_value.language_translation[l]
                    items == PluralItems(SplitLines(android.sorted_languages[l]),
                                         e.key_alphanumeric)
                IN  "variations" \in DOMAIN unit =>
                      LET members == unit.variations.plural
                          pv == t.variations
                      IN  /\ t.kind = "PluralVariation"
                          /\ Len(pv) = Len(members)
                          /\ Renders(t, unit)
                          /\ \A i, j \in 1..Len(pv) :
                                i < j => CategoryRank(pv[i].variate)
                                            < CategoryRank(pv[j].variate)
                          /\ Len(items) = Len(pv)
                          /\ \A i \in 1..Len(items) :
                                /\ StartsWith(items[i], OpenItem)
                                /\ EndsWith(items[i], CloseItem)
                                /\ ElementText(items[i], CloseItem)
                                      = SanitizeForAndroid(pv[i].translation_value)
                          /\ {members[i][1] : i \in 1..Len(members)} = {"many", "other"} =>
                                /\ Len(items) = 2
                                /\ AttributeValue(items[1], OpenItem) = <<"m", "a", "n", "y">>
                                /\ AttributeValue(items[2], OpenItem)
                                      = <<"o", "t", "h", "e", "r">>

C5_Witness ==
    /\ pc = "done"
    /\ KeyHello \in DOMAIN catalog.strings
    /\ catalog.strings[KeyHello] = EntryPlural
    /\ Len(PluralItems(SplitLines(android.sorted_languages[En]), KeyHello)) = 2
    /\ Len(PluralItems(SplitLines(android.sorted_languages[Nl]), KeyHello)) = 6

\* What C6 says sanitize returns, read in one pass from left to right.
RECURSIVE Escaped(_)
Escaped(v) ==
    IF v = <<>> THEN <<>>
    ELSE IF v[1] = "'" THEN <<"\\", "'">> \o Escaped(Tail(v))
    ELSE IF Len(v) >= 4 /\ SubSeq(v, 1, 4) = <<"$", "l", "l", "d">>
         THEN <<"$", "d">> \o Escaped(SubSeq(v, 5, Len(v)))
    ELSE <<v[1]>> \o Escaped(Tail(v))

NeedsNoEscape(v) ==
    /\ \A i \in 1..Len(v) : v[i] # "'"
    /\ \A i \in 1..(Len(v) - 3) : SubSeq(v, i, i + 3) # <<"$", "l", "l", "d">>

\* The translation values of a bucket, in the order they are rendered.
RECURSIVE BucketValues(_)
BucketValues(records) ==
    IF records = <<>> THEN <<>>
    ELSE (IF Head(records).translation.kind = "Localization"
          THEN <<Head(records).translation.value.value>>
          ELSE [i \in 1..Len(Head(records).translation.variations) |->
                    Head(records).translation.variations[i].translation_value.value])
         \o BucketValues(Tail(records))

\* The texts of the <string> and <item> elements of a document, the app_name
\* element left out.
RECURSIVE ElementTexts(_)
ElementTexts(lines) ==
    IF lines = <<>> THEN <<>>
    ELSE (IF StartsWith(Head(lines), OpenString \o AppNameKey \o EndOfTag) THEN <<>>
          ELSE IF StartsWith(Head(lines), OpenString)
               THEN <<ElementText(Head(lines), CloseString)>>
          ELSE IF StartsWith(Head(lines), OpenItem)
               THEN <<ElementText(Head(lines), CloseItem)>>
          ELSE <<>>)
         \o ElementTexts(Tail(lines))

\* C6: the text of every <string> and <item> element is the translation value
\* with every ' replaced by \' and every $lld by $d and nothing else changed: the
\* value itself when it holds neither, It\'s %1$d items for It's %1$lld items.
C6_Sanitize ==
    Rendered =>
        \A l \in DOMAIN Buckets :
            LET values == BucketValues(Buckets[l].translations)
                texts == ElementTexts(SplitLines(android.sorted_languages[l]))
            IN  /\ Len(texts) = Len(values)
                /\ \A i \in 1..Len(values) :
                      /\ texts[i] = Escaped(values[i])
                      /\ NeedsNoEscape(values[i]) => texts[i] = values[i]
                      /\ values[i] = ValueItems =>
                            texts[i] = <<"I", "t", "\\", "'", "s", " ", "%", "1", "$", "d", " ", "i", "t", "e", "m", "s">>

C6_Witness ==
    /\ pc = "done"
    /\ BucketValues(Buckets[En].translations) = <<ValueItems>>
    /\ Len(ElementTexts(SplitLines(android.sorted_languages[En]))) = 1
    /\ Len(ElementTexts(SplitLines(android.sorted_languages[En]))[1])
          = Len(ValueItems) - 1

\* The lines are the elements of the records, in order: one <string> line for a
\* Localization, a <plurals> block for a PluralVariation.
RECURSIVE AreChildrenOf(_, _)
AreChildrenOf(lines, records) ==
    IF records = <<>> THEN lines = <<>>
    ELSE LET r == Head(records)
             n == IF r.translation.kind = "Localization" THEN 0
                  ELSE Len(r.translation.variations)
         IN  IF r.translation.kind = "Localization"
             THEN /\ lines # <<>>
                  /\ StartsWith(lines[1], OpenString \o r.key_alphanumeric \o EndOfTag)
                  /\ EndsWith(lines[1], CloseString)
                  /\ AreChildrenOf(Tail(lines), Tail(records))
             ELSE /\ Len(lines) >= n + 2
                  /\ lines[1] = OpenPlurals \o r.key_alphanumeric \o EndOfTag
                  /\ \A i \in 2..(n + 1) :
                        StartsWith(lines[i], OpenItem) /\ EndsWith(lines[i], CloseItem)
                  /\ lines[n + 2] = ClosePlurals
                  /\ AreChildrenOf(SubSeq(lines, n + 3, Len(lines)), Tail(records))

ExampleCatalog ==
    [sourceLanguage |-> En, version |-> Version,
     strings |-> [k \in {KeyHello} |-> EntryEnglish]]

\* C7: every document is "<resources>\n", the children joined by "\n" and
\* "\n</resources>"; the children are the elements of the bucket's records in the
\* bucket's order, behind the app_name element exactly when app_name is not
\* empty; the documented example renders as documented.
C7_Document ==
    Rendered =>
        \A l \in DOMAIN Buckets :
            LET doc == android.sorted_languages[l]
                lines == SplitLines(doc)
                children == SubSeq(lines, 2, Len(lines) - 1)
                records == Buckets[l].translations
            IN  /\ StartsWith(doc, <<"<", "r", "e", "s", "o", "u", "r", "c", "e", "s", ">", "\n">>)
                /\ EndsWith(doc, <<"\n", "<", "/", "r", "e", "s", "o", "u", "r", "c", "e", "s", ">">>)
                /\ Len(doc) >= 25
                /\ IF config.app_name # <<>>
                   THEN /\ children # <<>>
                        /\ children[1] = <<"<", "s", "t", "r", "i", "n", "g", " ", "n", "a", "m", "e", "=", "\"", "a", "p", "p", "_", "n", "a", "m", "e", "\"", ">">>
                                            \o config.app_name \o <<"<", "/", "s", "t", "r", "i", "n", "g", ">">>
                        /\ AreChildrenOf(Tail(children), records)
                   ELSE AreChildrenOf(children, records)
                /\ (catalog = ExampleCatalog /\ config.app_name = <<>> /\ l = En) =>
                      doc = <<"<", "r", "e", "s", "o", "u", "r", "c", "e", "s", ">", "\n", "<", "s", "t", "r", "i", "n", "g", " ", "n", "a", "m", "e", "=", "\"", "h", "e", "l", "l", "o", "\"", ">", "H", "e", "l", "l", "o", "<", "/", "s", "t", "r", "i", "n", "g", ">", "\n", "<", "/", "r", "e", "s", "o", "u", "r", "c", "e", "s", ">">>

C7_Witness ==
    /\ pc = "done"
    /\ config.app_name # <<>>
    /\ Nl \in DOMAIN Buckets
    /\ Len(Buckets[Nl].translations) = 2
    /\ Buckets[Nl].translations[1].translation.kind = "PluralVariation"
    /\ Buckets[Nl].translations[2].translation.kind = "Localization"

C7_WitnessExample ==
    /\ pc = "done"
    /\ catalog = ExampleCatalog
    /\ config.app_name = <<>>

\* The sub-directory the claims give to a language.
ExpectedSubDir(l) ==
    IF l = catalog.sourceLanguage
    THEN <<"v", "a", "l", "u", "e", "s">>
    ELSE <<"v", "a", "l", "u", "e", "s", "-">> \o l

\* Every language of the catalog: those of the localizations and, by the
\* fallback, the source language of every key.
CatalogLanguages ==
    UNION {DOMAIN catalog.strings[k].localizations \cup {catalog.sourceLanguage} :
              k \in DOMAIN catalog.strings}

\* The languages that pass the filter of the configuration.
PassingLanguages ==
    IF config.write_config = <<>> THEN {}
    ELSE {l \in CatalogLanguages :
            \/ config.write_config[1].only_write_language_code = <<>>
            \/ config.write_config[1].only_write_language_code[1] = l}

\* The sub-directory d is as it was before the call.
Untouched(d) ==
    /\ d \in fs.dirs <=> d \in fsBefore.dirs
    /\ d \in DOMAIN fs.files <=> d \in DOMAIN fsBefore.files
    /\ d \in DOMAIN fs.files => fs.files[d] = fsBefore.files[d]

\* C8: a call with write_config that meets no I/O failure writes one file per
\* language passing the filter, in ascending language order, into values or
\* values-{language}; written_files lists exactly those, nothing else is
\* touched, and per_language_xml holds every language of the catalog. Without
\* write_config nothing is written and written_files is empty.
C8_WrittenFiles ==
    pc = "done" =>
        LET w == android.written_xmls
        IN  /\ DOMAIN android.sorted_languages = CatalogLanguages
            /\ {w[i].language_code : i \in 1..Len(w)} = PassingLanguages
            /\ \A i, j \in 1..Len(w) :
                  i < j => StrLess(w[i].language_code, w[j].language_code)
            /\ \A i \in 1..Len(w) :
                  /\ w[i].sub_dir = ExpectedSubDir(w[i].language_code)
                  /\ w[i].sub_dir \in fs.dirs
                  /\ w[i].sub_dir \in DOMAIN fs.files
                  /\ fs.files[w[i].sub_dir] = android.sorted_languages[w[i].language_code]
            /\ \A d \in (fs.dirs \cup DOMAIN fs.files \cup fsBefore.dirs
                            \cup DOMAIN fsBefore.files)
                        \ {ExpectedSubDir(l) : l \in PassingLanguages} : Untouched(d)
            /\ config.write_config = <<>> => w = <<>> /\ fs = fsBefore

C8_Witness ==
    /\ pc = "done"
    /\ config.write_config # <<>>
    /\ config.write_config[1].only_write_language_code = <<Nl>>
    /\ catalog.sourceLanguage = En
    /\ android.written_xmls
          = <<[language_code |-> Nl,
               sub_dir |-> <<"v", "a", "l", "u", "e", "s", "-", "n", "l">>]>>
    /\ {De, En, Nl} \subseteq DOMAIN android.sorted_languages
    /\ <<"v", "a", "l", "u", "e", "s">> \notin DOMAIN fs.files

\* The state in which localized_for_android has returned an Io error.
C9_AfterFailure ==
    pc = "io_err" =>
        /\ io_error.kind = "Io"
        /\ todo # <<>>
        /\ \A i \in 1..Len(written) :
              /\ written[i].sub_dir \in DOMAIN fs.files
              /\ fs.files[written[i].sub_dir]
                    = android.sorted_languages[written[i].language_code]
        /\ \A i \in 2..Len(todo) : Untouched(ExpectedSubDir(todo[i]))
        /\ io_error.op = "create_dir" => ExpectedSubDir(todo[1]) \notin fs.dirs

\* C9: the first failure of create_dir or write ends the call with an Io error
\* at once: nothing happens after it, no later language is created or written,
\* the files written before it keep their new content, and the directory step
\* does not fail when the sub-directory exists.
C9_FailureAborts == [](C9_AfterFailure) /\ [][pc # "io_err"]_vars

C9_Witness ==
    /\ pc = "io_err"
    /\ fsBefore = UsedDir
    /\ Len(written) = 1
    /\ Len(todo) = 2
    /\ io_error.op = "write"

\* The translations of an entry.
TranslationsOf(e) == e.localization_value.language_translation

\* C10: the bucket of a language holds exactly one record for each entry that
\* has a translation for it, with that entry's key_raw, key_alphanumeric, comment
\* and translation, in the order of the entries (ascending key_raw); only
\* languages some entry translates have a bucket.
C10_Buckets ==
    pc = "grouped" =>
        /\ DOMAIN Buckets = UNION {DOMAIN TranslationsOf(Entries[i]) : i \in 1..Len(Entries)}
        /\ \A l \in DOMAIN Buckets :
              LET idx == {i \in 1..Len(Entries) : l \in DOMAIN TranslationsOf(Entries[i])}
                  records == Buckets[l].translations
              IN  /\ Len(records) = Cardinality(idx)
                  /\ Len(records) >= 1
                  /\ \A j \in 1..Len(records) :
                        LET e == Entries[Nth(idx, j)]
                        IN  records[j] = [key_raw |-> e.key_raw,
                                          key_alphanumeric |-> e.key_alphanumeric,
                                          translation |-> TranslationsOf(e)[l],
                                          comment |-> e.comment]
                  /\ \A a, b \in 1..Len(records) :
                        a < b => StrLess(records[a].key_raw, records[b].key_raw)

C10_Witness ==
    /\ pc = "grouped"
    /\ Len(Entries) = 2
    /\ DOMAIN Buckets = {De, En, Nl}
    /\ Len(Buckets[En].translations) = 2
    /\ Len(Buckets[De].translations) = 1
    /\ Buckets[De].translations[1].key_raw = Entries[2].key_raw

\* The whitespace-separated tokens of a text: the places where a character that
\* is not whitespace starts the text or follows whitespace.
TokenCount(v) ==
    Cardinality({i \in 1..Len(v) :
                    /\ v[i] \notin {" ", "\t", "\n"}
                    /\ (i = 1 \/ v[i - 1] \in {" ", "\t", "\n"})})

\* The tokens of the values of the populated variants of a plural.
RECURSIVE VariantTokens(_)
VariantTokens(pv) ==
    IF pv = <<>> THEN 0
    ELSE TokenCount(Head(pv).translation_value.value) + VariantTokens(Tail(pv))

\* The token count of one translation.
RecordTokens(translation) ==
    IF translation.kind = "Localization"
    THEN TokenCount(translation.value.value)
    ELSE VariantTokens(translation.variations)

\* The sum of the token counts of the records of a bucket.
RECURSIVE BucketTokens(_)
BucketTokens(records) ==
    IF records = <<>> THEN 0
    ELSE RecordTokens(Head(records).translation) + BucketTokens(Tail(records))

\* The sum of the token counts of the translations the entries have for a
\* language.
RECURSIVE LanguageTokens(_, _)
LanguageTokens(entries, l) ==
    IF entries = <<>> THEN 0
    ELSE (IF l \in DOMAIN TranslationsOf(Head(entries))
          THEN RecordTokens(TranslationsOf(Head(entries))[l])
          ELSE 0) + LanguageTokens(Tail(entries), l)

\* C11: the word_count of every bucket is the sum, over the records of the
\* bucket, of the record's token count: the whitespace-separated tokens of the
\* value of a Localization, the sum over the populated variants of a
\* PluralVariation (0 without variants); it is the sum over the translations of
\* that language alone, the translations of other languages add nothing.
C11_WordCount ==
    pc = "grouped" =>
        \A l \in DOMAIN Buckets :
            /\ Buckets[l].word_count = BucketTokens(Buckets[l].translations)
            /\ Buckets[l].word_count = LanguageTokens(Entries, l)

C11_Witness ==
    /\ pc = "grouped"
    /\ Len(Entries) = 2
    /\ Entries[1].key_raw = KeyHello
    /\ catalog.strings[KeyHello] = EntryMixed
    /\ catalog.strings[Entries[2].key_raw] = EntryDutch
    /\ DOMAIN Buckets = {De, En, Nl}
    /\ Buckets[De].word_count = 0
    /\ Buckets[En].word_count = 2
    /\ Buckets[Nl].word_count = 6

\* The CLDR category name under which a plural slot stands in the input.
CategoryName(name) ==
    CASE name = "zero"  -> <<"z", "e", "r", "o">>
      [] name = "one"   -> <<"o", "n", "e">>
      [] name = "two"   -> <<"t", "w", "o">>
      [] name = "few"   -> <<"f", "e", "w">>
      [] name = "many"  -> <<"m", "a", "n", "y">>
      [] name = "other" -> <<"o", "t", "h", "e", "r">>

\* The place, among the items of its block, of the item of an input member: the
\* items stand in the order zero, one, two, few, many, other.
ItemPlace(members, name) ==
    1 + Cardinality({h \in 1..Len(members) :
                        CategoryRank(VariateOfMember(members[h][1]))
                            < CategoryRank(VariateOfMember(name))})

\* C12: in every rendered <plurals> block the quantity attribute of the item of
\* a populated plural slot is the slot's CLDR category name (zero, one, two,
\* few, many, other), the key under which the slot stands in the input, for
\* each of the six categories.
C12_QuantityIsCategoryName ==
    Rendered =>
        \A k \in DOMAIN catalog.strings :
            \A l \in DOMAIN catalog.strings[k].localizations :
                LET unit == catalog.strings[k].localizations[l]
                    e == CHOOSE x \in {Entries[i] : i \in 1..Len(Entries)} : x.key_raw = k
                    items == PluralItems(SplitLines(android.sorted_languages[l]),
                                         e.key_alphanumeric)
                IN  "variations" \in DOMAIN unit =>
                      LET members == unit.variations.plural
                      IN  \A j \in 1..Len(members) :
                            AttributeValue(items[ItemPlace(members, members[j][1])], OpenItem)
                                = CategoryName(members[j][1])

====
